---- MODULE Spec2Model ----
(***************************************************************************)
(* Model of cloudquery_sync_dag.py: an Airflow DAG with two tasks.         *)
(*   download_cloudquery(version)      -- the binary resolver/fetcher      *)
(*   run_xkcd_to_sqlite_sync(spec, p)  -- the sync runner                  *)
(* The state is the cache file in the system temp directory, the state of  *)
(* every task instance of every DAG run, and the position and locals of    *)
(* the task attempt each run is executing.                                 *)
(*                                                                         *)
(* A Python str is modelled as a sequence of string pieces, concatenated   *)
(* with \o as an f-string concatenates; bytes are sequences of 0..255.     *)
(***************************************************************************)
EXTENDS Integers, Sequences, FiniteSets, TLC

VARIABLES
  host,      \* what platform.system() / platform.machine() answer on this host
  fs,        \* the file at the cache path: exists, content, mode
  params,    \* params[r]: the params of the run in place r, or NoParams
  task,      \* task[r][t]: state of task instance t of run r
  tries,     \* tries[r][t]: attempts of task instance t started so far
  pc,        \* pc[r]: position of the attempt run r is executing, or "idle";
             \*   at "read" and "wait" a child process of r is executing the file
  loc,       \* loc[r]: arguments and locals of that attempt (url, response, result)
  gets,      \* gets[r]: HTTP GETs made by the current/last resolver attempt of r
  xcom,      \* xcom[r]: return value pushed by download_cloudquery, or None
  raised     \* the exception that ended the last task attempt, until the next starts

vars == <<host, fs, params, task, tries, pc, loc, gets, xcom, raised>>

(* ------------------------------ bounds -------------------------------- *)

\* Longest captured output of a child process, in bytes.
MaxOut == 2

\* The places for DAG runs under way at once.
Runs == {1, 2}

None == <<"None">>

(* --------------------------- Python helpers --------------------------- *)

\* str.lower() on the strings platform.system() and platform.machine() return.
Lower(s) ==
  CASE s = "Darwin" -> "darwin"
    [] s = "Linux" -> "linux"
    [] s = "Windows" -> "windows"
    [] s = "FreeBSD" -> "freebsd"
    [] s = "AMD64" -> "amd64"
    [] s = "ARM64" -> "arm64"
    [] OTHER -> s

\* The decimal digit d as a one-character piece.
Digit(d) ==
  CASE d = 0 -> "0" [] d = 1 -> "1" [] d = 2 -> "2" [] d = 3 -> "3"
    [] d = 4 -> "4" [] d = 5 -> "5" [] d = 6 -> "6" [] d = 7 -> "7"
    [] d = 8 -> "8" [] d = 9 -> "9"

RECURSIVE NatStr(_)
NatStr(n) == IF n < 10 THEN <<Digit(n)>> ELSE NatStr(n \div 10) \o <<Digit(n % 10)>>

\* format(n) of an int inside an f-string: decimal, "-" for a negative one.
IntStr(n) == IF n < 0 THEN <<"-">> \o NatStr(0 - n) ELSE NatStr(n)

\* One decoded character, named by its code point.
Chr(cp) == "chr(" \o ToString(cp) \o ")"

IsCont(b) == b >= 128 /\ b <= 191

\* bytes.decode(): strict UTF-8.  ok = FALSE stands for UnicodeDecodeError.
RECURSIVE Utf8Decode(_)
Utf8Decode(b) ==
  IF b = <<>> THEN [ok |-> TRUE, text |-> <<>>]
  ELSE
    LET b1 == b[1]
        n == Len(b)
        width ==
          IF b1 < 128 THEN 1
          ELSE IF b1 >= 194 /\ b1 <= 223 /\ n >= 2 /\ IsCont(b[2]) THEN 2
          ELSE IF b1 >= 224 /\ b1 <= 239 /\ n >= 3 /\ IsCont(b[2]) /\ IsCont(b[3])
                  /\ (b1 = 224 => b[2] >= 160) /\ (b1 = 237 => b[2] <= 159) THEN 3
          ELSE IF b1 >= 240 /\ b1 <= 244 /\ n >= 4 /\ IsCont(b[2]) /\ IsCont(b[3])
                  /\ IsCont(b[4])
                  /\ (b1 = 240 => b[2] >= 144) /\ (b1 = 244 => b[2] <= 143) THEN 4
          ELSE 0
        cp ==
          CASE width = 1 -> b1
            [] width = 2 -> (b1 - 192) * 64 + (b[2] - 128)
            [] width = 3 -> (b1 - 224) * 4096 + (b[2] - 128) * 64 + (b[3] - 128)
            [] width = 4 -> (b1 - 240) * 262144 + (b[2] - 128) * 4096
                              + (b[3] - 128) * 64 + (b[4] - 128)
            [] OTHER -> 0
    IN IF width = 0 THEN [ok |-> FALSE, text |-> <<>>]
       ELSE LET rest == Utf8Decode(SubSeq(b, width + 1, n))
            IN IF rest.ok THEN [ok |-> TRUE, text |-> <<Chr(cp)>> \o rest.text]
               ELSE rest

(* ------------------------------ platform ------------------------------ *)

IsWindows(h) == Lower(h.system) = "windows"

\* extension = ".exe" if windows else ""
Extension(h) == IF IsWindows(h) THEN <<".exe">> ELSE <<>>

ValueError(msg) == [type |-> "ValueError", msg |-> msg]

\* Mutant: an architecture outside the recognized ones is taken for arm64
\* instead of being refused.
_get_url_any_arch(h, version) ==
  LET system == Lower(h.system)
      arch == Lower(h.machine)
  IN IF system \notin {"darwin", "linux", "windows"}
     THEN [ok |-> FALSE, exc |-> ValueError(<<"Unsupported system: ", system>>)]
     ELSE
       LET a == IF arch \in {"x86_64", "amd64"} THEN "amd64" ELSE "arm64"
           extension == IF system = "windows" THEN <<".exe">> ELSE <<>>
           filename == <<"cloudquery_", system, "_", a>> \o extension
       IN [ok |-> TRUE,
           url |-> <<"https://github.com/cloudquery/cloudquery/releases/download/cli-",
                     version, "/">> \o filename]

\* Mutant: the .exe suffix is left off the file name in the URL.
_get_url_no_exe(h, version) ==
  LET system == Lower(h.system)
      arch == Lower(h.machine)
  IN IF system \notin {"darwin", "linux", "windows"}
     THEN [ok |-> FALSE, exc |-> ValueError(<<"Unsupported system: ", system>>)]
     ELSE IF arch \notin {"x86_64", "amd64", "aarch64", "arm64"}
     THEN [ok |-> FALSE, exc |-> ValueError(<<"Unsupported architecture: ", arch>>)]
     ELSE
       LET a == IF arch \in {"x86_64", "amd64"} THEN "amd64" ELSE "arm64"
           filename == <<"cloudquery_", system, "_", a>>
       IN [ok |-> TRUE,
           url |-> <<"https://github.com/cloudquery/cloudquery/releases/download/cli-",
                     version, "/">> \o filename]

\* _get_cloudquery_download_url(version): the URL, or the ValueError raised.
_get_cloudquery_download_url(h, version) ==
  LET system == Lower(h.system)
      arch == Lower(h.machine)
  IN IF system \notin {"darwin", "linux", "windows"}
     THEN [ok |-> FALSE, exc |-> ValueError(<<"Unsupported system: ", system>>)]
     ELSE IF arch \notin {"x86_64", "amd64", "aarch64", "arm64"}
     THEN [ok |-> FALSE, exc |-> ValueError(<<"Unsupported architecture: ", arch>>)]
     ELSE
       LET a == IF arch \in {"x86_64", "amd64"} THEN "amd64" ELSE "arm64"
           extension == IF system = "windows" THEN <<".exe">> ELSE <<>>
           filename == <<"cloudquery_", system, "_", a>> \o extension
       IN [ok |-> TRUE,
           url |-> <<"https://github.com/cloudquery/cloudquery/releases/download/cli-",
                     version, "/">> \o filename]

\* file_path = os.path.join(tempfile.gettempdir(), f"cloudquery{extension}")
CachePath(h) ==
  <<"<tmp>", IF IsWindows(h) THEN "\\" ELSE "/", "cloudquery">> \o Extension(h)

(* ------------------------------ the values ---------------------------- *)

Tasks == {"dl", "sync"}

\* default_args['retries']
Retries == 1

\* os.chmod(file_path, 0o755)
ExecMode == 493

\* Mode of a file that open(file_path, "wb") creates: 0o666 masked by umask 0o022.
CreateMode == 420

\* Owner, group and other execute bits of a mode.
ExecBits(mode) == <<(mode \div 64) % 2, (mode \div 8) % 2, mode % 2>>

NoFile == [exists |-> FALSE, content |-> <<>>, mode |-> 0]

NoParams == [spec_file_path |-> None, cloudquery_version |-> ""]

NoLoc == [url |-> None, response |-> [kind |-> "none"],
          args |-> [kind |-> "none"], result |-> [kind |-> "none"]]

NoExc == [run |-> 0, task |-> "none", type |-> "none", msg |-> <<>>]

\* What platform.system() and platform.machine() may answer.
Systems == {"Darwin", "Linux", "Windows", "FreeBSD"}
Machines == {"x86_64", "AMD64", "aarch64", "arm64", "riscv64"}
Hosts == [system : Systems, machine : Machines]
PosixHosts == {[system |-> "Linux", machine |-> "x86_64"],
               [system |-> "Darwin", machine |-> "arm64"]}

\* Values of the DAG's params: cloudquery_version and spec_file_path.
Versions == {"v6.4.1", "v6.5.0"}
SpecFiles == {<<"<dag>/sync_spec.yml">>, <<"/etc/other.yml">>}

\* The release asset the server holds for a version, as a sequence of blocks.
Asset(version) == IF version = "v6.4.1" THEN <<1>> ELSE <<2, 3>>

Bodies == {Asset(v) : v \in Versions}

\* Answers to requests.get(url): a network error (status 0), or a response.
Statuses == {200, 404, 503}
HttpAnswers ==
  {[kind |-> "neterr", status |-> 0]} \cup [kind : {"resp"}, status : Statuses]

\* The response to a GET of url answered with status: the asset of the
\* version the URL names (its second piece), or an error page.
Response(url, status) ==
  [kind |-> "resp", status |-> status,
   content |-> IF status = 200 THEN Asset(url[2]) ELSE <<0>>]

\* Bytes a child process may print: "A", and the two bytes of U+00E9 (0xC3 0xA9),
\* each of which alone is not UTF-8.
OutBytes == {65, 195, 169}

RECURSIVE SeqsUpTo(_, _)
SeqsUpTo(S, n) ==
  IF n = 0 THEN {<<>>}
  ELSE LET shorter == SeqsUpTo(S, n - 1)
       IN shorter \cup {Append(q, x) : q \in shorter, x \in S}

\* Exit codes of a child process: success, a failure, killed by SIGKILL.
ExitCodes == {0, 12, -9}

\* The inputs the environment may feed the steps.
Inputs == [http |-> HttpAnswers, codes |-> ExitCodes, outs |-> SeqsUpTo(OutBytes, MaxOut)]

\* The same, with one failing and one succeeding input of each kind.
FewInputs ==
  [http |-> {a \in HttpAnswers : a.status \in {200, 404}},
   codes |-> {0, 12},
   outs |-> {<<65>>, <<195>>}]

(* ------------------------------ scheduler ----------------------------- *)

\* State of a DAG run, from the states of its task instances.
RunState(r) ==
  IF task[r].dl = "failed" \/ task[r].sync \in {"failed", "upstream_failed"}
  THEN "failed"
  ELSE IF task[r].dl = "success" /\ task[r].sync = "success" THEN "success"
  ELSE "running"

\* The DAG is triggered (schedule_interval=None: by hand): place r holds a new
\* run, whose tasks get the params' values as their arguments.
Trigger(r) ==
  /\ params[r] = NoParams
  /\ \E f \in SpecFiles, v \in Versions :
       params' = [params EXCEPT ![r] = [spec_file_path |-> f, cloudquery_version |-> v]]
  /\ UNCHANGED <<host, fs, task, tries, pc, loc, gets, xcom, raised>>

\* A finished run leaves its place to a later run.
Archive(r) ==
  /\ RunState(r) # "running"
  /\ params' = [params EXCEPT ![r] = NoParams]
  /\ task' = [task EXCEPT ![r] = [dl |-> "none", sync |-> "none"]]
  /\ tries' = [tries EXCEPT ![r] = [dl |-> 0, sync |-> 0]]
  /\ gets' = [gets EXCEPT ![r] = 0]
  /\ xcom' = [xcom EXCEPT ![r] = None]
  /\ raised' = IF raised.run = r THEN NoExc ELSE raised
  /\ UNCHANGED <<host, fs, pc, loc>>

\* Mutant: a task attempt that raises fails the task at once, without a retry.
FailWithoutRetry(r, t, exc) ==
  /\ task' = [task EXCEPT ![r] =
                IF t = "dl"
                THEN [dl |-> "failed", sync |-> "upstream_failed"]
                ELSE [@ EXCEPT !.sync = "failed"]]
  /\ raised' = [run |-> r, task |-> t, type |-> exc.type, msg |-> exc.msg]
  /\ pc' = [pc EXCEPT ![r] = "idle"]
  /\ loc' = [loc EXCEPT ![r] = NoLoc]

\* A task attempt raised exc: retry while attempts remain, else fail the task
\* (and with it everything downstream).
Fail(r, t, exc) ==
  LET final == tries[r][t] > Retries
      st == IF final THEN "failed" ELSE "up_for_retry"
  IN /\ task' = [task EXCEPT ![r] =
                   IF t = "dl"
                   THEN [dl |-> st, sync |-> IF final THEN "upstream_failed" ELSE @.sync]
                   ELSE [@ EXCEPT !.sync = st]]
     /\ raised' = [run |-> r, task |-> t, type |-> exc.type, msg |-> exc.msg]
     /\ pc' = [pc EXCEPT ![r] = "idle"]
     /\ loc' = [loc EXCEPT ![r] = NoLoc]

\* A task attempt returned value: the task succeeds; download_cloudquery's
\* return value is pushed as its XCom.
Succeed(r, t, value) ==
  /\ task' = [task EXCEPT ![r][t] = "success"]
  /\ xcom' = [xcom EXCEPT ![r] = IF t = "dl" THEN value ELSE @]
  /\ pc' = [pc EXCEPT ![r] = "idle"]
  /\ loc' = [loc EXCEPT ![r] = NoLoc]

\* The scheduler starts (or retries) download_cloudquery(version).
StartResolver(r) ==
  /\ params[r] # NoParams
  /\ pc[r] = "idle"
  /\ task[r].dl \in {"none", "up_for_retry"}
  /\ task' = [task EXCEPT ![r].dl = "running"]
  /\ tries' = [tries EXCEPT ![r].dl = @ + 1]
  /\ pc' = [pc EXCEPT ![r] = "exists"]
  /\ loc' = [loc EXCEPT ![r].args =
               [kind |-> "args", version |-> params[r].cloudquery_version]]
  /\ gets' = [gets EXCEPT ![r] = 0]
  /\ raised' = NoExc
  /\ UNCHANGED <<host, fs, params, xcom>>

\* Mutant: the runner does not depend on the resolver.
StartRunnerUnordered(r) ==
  /\ params[r] # NoParams
  /\ pc[r] = "idle"
  /\ task[r].sync \in {"none", "up_for_retry"}
  /\ task' = [task EXCEPT ![r].sync = "running"]
  /\ tries' = [tries EXCEPT ![r].sync = @ + 1]
  /\ pc' = [pc EXCEPT ![r] = "run"]
  /\ loc' = [loc EXCEPT ![r].args =
               [kind |-> "args",
                spec_file_path |-> params[r].spec_file_path,
                cloudquery_path |-> xcom[r]]]
  /\ raised' = NoExc
  /\ UNCHANGED <<host, fs, params, gets, xcom>>

\* The scheduler starts (or retries) run_xkcd_to_sqlite_sync(spec_file_path,
\* cloudquery_path) once download_cloudquery has succeeded.
StartRunner(r) ==
  /\ pc[r] = "idle"
  /\ task[r].dl = "success"
  /\ task[r].sync \in {"none", "up_for_retry"}
  /\ task' = [task EXCEPT ![r].sync = "running"]
  /\ tries' = [tries EXCEPT ![r].sync = @ + 1]
  /\ pc' = [pc EXCEPT ![r] = "run"]
  /\ loc' = [loc EXCEPT ![r].args =
               [kind |-> "args",
                spec_file_path |-> params[r].spec_file_path,
                cloudquery_path |-> xcom[r]]]
  /\ raised' = NoExc
  /\ UNCHANGED <<host, fs, params, gets, xcom>>

(* ------------------------- download_cloudquery ------------------------ *)

\* Mutant: the existence check is skipped and every invocation downloads.
CheckExistsAlwaysDownloads(r) ==
  /\ pc[r] = "exists"
  /\ pc' = [pc EXCEPT ![r] = "url"]
  /\ UNCHANGED <<host, fs, params, task, tries, loc, gets, xcom, raised>>

\* if os.path.exists(file_path): return file_path
CheckExists(r) ==
  /\ pc[r] = "exists"
  /\ IF fs.exists
     THEN /\ Succeed(r, "dl", CachePath(host))
          /\ UNCHANGED <<tries, gets, raised>>
     ELSE /\ pc' = [pc EXCEPT ![r] = "url"]
          /\ UNCHANGED <<task, tries, loc, gets, xcom, raised>>
  /\ UNCHANGED <<host, fs, params>>

\* url = _get_cloudquery_download_url(version)
GetUrl(r) ==
  /\ pc[r] = "url"
  /\ LET u == _get_cloudquery_download_url(host, loc[r].args.version)
     IN IF u.ok
        THEN /\ loc' = [loc EXCEPT ![r].url = u.url]
             /\ pc' = [pc EXCEPT ![r] = "get"]
             /\ UNCHANGED <<task, raised>>
        ELSE Fail(r, "dl", u.exc)
  /\ UNCHANGED <<host, fs, params, tries, gets, xcom>>

\* response.raise_for_status(): HTTPError for a 4xx or 5xx status.
raise_for_status(o) ==
  IF o.status >= 400 /\ o.status < 600
  THEN [ok |-> FALSE,
        exc |-> [type |-> "HTTPError", msg |-> IntStr(o.status) \o <<" Error">>]]
  ELSE [ok |-> TRUE]

\* Mutant: the body is saved at the cache path before the status is looked at.
HttpGetSavesBeforeStatus(r, E) ==
  /\ pc[r] = "get"
  /\ gets' = [gets EXCEPT ![r] = @ + 1]
  /\ \E a \in E.http :
       IF a.kind = "neterr"
       THEN /\ Fail(r, "dl", [type |-> "ConnectionError", msg |-> loc[r].url])
            /\ UNCHANGED fs
       ELSE LET response == Response(loc[r].url, a.status)
            IN /\ fs' = [exists |-> TRUE, content |-> response.content,
                         mode |-> IF fs.exists THEN fs.mode ELSE CreateMode]
               /\ IF ~raise_for_status(response).ok
                  THEN Fail(r, "dl", raise_for_status(response).exc)
                  ELSE /\ loc' = [loc EXCEPT ![r].response = response]
                       /\ pc' = [pc EXCEPT ![r] = "open"]
                       /\ UNCHANGED <<task, raised>>
  /\ UNCHANGED <<host, params, tries, xcom>>

\* response = requests.get(url); response.raise_for_status()
HttpGet(r, E) ==
  /\ pc[r] = "get"
  /\ gets' = [gets EXCEPT ![r] = @ + 1]
  /\ \E a \in E.http :
       IF a.kind = "neterr"
       THEN Fail(r, "dl", [type |-> "ConnectionError", msg |-> loc[r].url])
       ELSE LET response == Response(loc[r].url, a.status)
            IN IF ~raise_for_status(response).ok
               THEN Fail(r, "dl", raise_for_status(response).exc)
               ELSE /\ loc' = [loc EXCEPT ![r].response = response]
                    /\ pc' = [pc EXCEPT ![r] = "open"]
                    /\ UNCHANGED <<task, raised>>
  /\ UNCHANGED <<host, fs, params, tries, xcom>>

\* Some run's child process is executing the file at the cache path: the
\* version query between os.popen(...) and the end of read(), or the sync
\* inside subprocess.run.
Executing == \E q \in Runs : pc[q] \in {"read", "wait"}

\* Some run holds the file at the cache path open for writing: it is inside
\* the with block, between open() and the close after f.write().
OpenForWriting == \E q \in Runs : pc[q] = "write"

\* What the operating system answers when a file that is being executed is
\* opened for writing, or a file that is open for writing is executed:
\* ETXTBSY on POSIX, a sharing violation on Windows.
TextFileBusy(path) ==
  IF IsWindows(host)
  THEN [type |-> "PermissionError",
        msg |-> <<"[WinError 32] The process cannot access the file: '">> \o path \o <<"'">>]
  ELSE [type |-> "OSError",
        msg |-> <<"[Errno 26] Text file busy: '">> \o path \o <<"'">>]

\* Mutant: the file is opened only while no other invocation is writing it or
\* setting its mode, as under a lock around write and chmod.
OpenFileLocked(r) ==
  /\ pc[r] = "open"
  /\ \A q \in Runs \ {r} : pc[q] \notin {"write", "chmod"}
  /\ IF Executing
     THEN /\ Fail(r, "dl", TextFileBusy(CachePath(host)))
          /\ UNCHANGED fs
     ELSE /\ fs' = [exists |-> TRUE, content |-> <<>>,
                    mode |-> IF fs.exists THEN fs.mode ELSE CreateMode]
          /\ pc' = [pc EXCEPT ![r] = "write"]
          /\ UNCHANGED <<task, loc, raised>>
  /\ UNCHANGED <<host, params, tries, gets, xcom>>

\* open(file_path, "wb"): creates the file if absent, truncates it if present;
\* raises, leaving the file as it is, while a child process is executing it.
OpenFile(r) ==
  /\ pc[r] = "open"
  /\ IF Executing
     THEN /\ Fail(r, "dl", TextFileBusy(CachePath(host)))
          /\ UNCHANGED fs
     ELSE /\ fs' = [exists |-> TRUE, content |-> <<>>,
                    mode |-> IF fs.exists THEN fs.mode ELSE CreateMode]
          /\ pc' = [pc EXCEPT ![r] = "write"]
          /\ UNCHANGED <<task, loc, raised>>
  /\ UNCHANGED <<host, params, tries, gets, xcom>>

\* f.write(response.content) and the close ending the with block: the body is
\* written from offset 0 of the open file, over whatever it holds by now.
WriteFile(r) ==
  /\ pc[r] = "write"
  /\ LET body == loc[r].response.content
     IN fs' = [fs EXCEPT !.content =
                 body \o SubSeq(fs.content, Len(body) + 1, Len(fs.content))]
  /\ pc' = [pc EXCEPT ![r] = "chmod"]
  /\ UNCHANGED <<host, params, task, tries, loc, gets, xcom, raised>>

\* if platform.system().lower() != "windows": os.chmod(file_path, 0o755)
Chmod(r) ==
  /\ pc[r] = "chmod"
  /\ fs' = IF ~IsWindows(host) THEN [fs EXCEPT !.mode = ExecMode] ELSE fs
  /\ pc' = [pc EXCEPT ![r] = "version"]
  /\ UNCHANGED <<host, params, task, tries, loc, gets, xcom, raised>>

\* Whether the operating system can start the file at path as a program: it
\* is there, is not empty, has the owner's execute bit (POSIX), and no run
\* holds it open for writing.
Launchable(path) ==
  /\ path = CachePath(host)
  /\ fs.exists
  /\ fs.content # <<>>
  /\ (IsWindows(host) \/ ExecBits(fs.mode)[1] = 1)
  /\ ~OpenForWriting

\* The error of starting a file that is not Launchable, in the order the
\* operating system looks: the file, its execute bit, a writer, its format.
ExecError(path) ==
  IF ~(path = CachePath(host) /\ fs.exists)
  THEN [type |-> "FileNotFoundError",
        msg |-> <<"[Errno 2] No such file or directory: '">> \o path \o <<"'">>]
  ELSE IF ~IsWindows(host) /\ ExecBits(fs.mode)[1] = 0
  THEN [type |-> "PermissionError",
        msg |-> <<"[Errno 13] Permission denied: '">> \o path \o <<"'">>]
  ELSE IF OpenForWriting
  THEN TextFileBusy(path)
  ELSE [type |-> "OSError",
        msg |-> <<"[Errno 8] Exec format error: '">> \o path \o <<"'">>]

\* os.popen(f"{file_path} --version"): a shell is started to run the command.
\* When the shell can start the file, the file is executing from here until
\* the read() ends.  When it cannot, the shell says so on its standard error,
\* which is not captured: read() returns '' and file_path is returned.
StartVersionCheck(r) ==
  /\ pc[r] = "version"
  /\ IF Launchable(CachePath(host))
     THEN /\ pc' = [pc EXCEPT ![r] = "read"]
          /\ UNCHANGED <<task, loc, xcom, raised>>
     ELSE /\ Succeed(r, "dl", CachePath(host))
          /\ UNCHANGED raised
  /\ UNCHANGED <<host, fs, params, tries, gets>>

\* version_output = os.popen(...).read(); return file_path
\* The child ends.  The exit status of the command is not looked at; read()
\* decodes what the command printed in the locale's encoding (UTF-8), strictly.
VersionCheck(r, E) ==
  /\ pc[r] = "read"
  /\ \E out \in E.outs :
       IF Utf8Decode(out).ok
       THEN /\ Succeed(r, "dl", CachePath(host))
            /\ UNCHANGED raised
       ELSE /\ Fail(r, "dl", [type |-> "UnicodeDecodeError",
                               msg |-> <<"'utf-8' codec can't decode">>])
            /\ UNCHANGED xcom
  /\ UNCHANGED <<host, fs, params, tries, gets>>

(* ----------------------- run_xkcd_to_sqlite_sync ---------------------- *)

\* subprocess.run([cloudquery_path, 'sync', spec_file_path], capture_output=True)
\* starts the child, or raises when the operating system cannot start the file.
RunSync(r) ==
  /\ pc[r] = "run"
  /\ LET argv == <<loc[r].args.cloudquery_path, <<"sync">>, loc[r].args.spec_file_path>>
     IN IF ~Launchable(argv[1])
        THEN Fail(r, "sync", ExecError(argv[1]))
        ELSE /\ loc' = [loc EXCEPT ![r].result = [kind |-> "popen", args |-> argv]]
             /\ pc' = [pc EXCEPT ![r] = "wait"]
             /\ UNCHANGED <<task, raised>>
  /\ UNCHANGED <<host, fs, params, tries, gets, xcom>>

\* result = subprocess.run(...): the child exits and the CompletedProcess
\* holds its arguments, its exit code and what it printed.
SyncExit(r, E) ==
  /\ pc[r] = "wait"
  /\ \E rc \in E.codes, out \in E.outs :
       loc' = [loc EXCEPT ![r].result =
                 [kind |-> "completed", args |-> loc[r].result.args,
                  returncode |-> rc, stdout |-> out]]
  /\ pc' = [pc EXCEPT ![r] = "check"]
  /\ UNCHANGED <<host, fs, params, task, tries, gets, xcom, raised>>

\* Exception(f"CloudQuery sync failed with return code {result.returncode}.
\*   Output: {result.stdout.decode()}"), or what evaluating it raises.
SyncFailed(result) ==
  LET d == Utf8Decode(result.stdout)
  IN IF d.ok
     THEN [type |-> "Exception",
           msg |-> <<"CloudQuery sync failed with return code ">>
                     \o IntStr(result.returncode) \o <<". Output: ">> \o d.text]
     ELSE [type |-> "UnicodeDecodeError", msg |-> <<"'utf-8' codec can't decode">>]

\* if result.returncode != 0: raise Exception(...)
CheckResult(r) ==
  /\ pc[r] = "check"
  /\ IF loc[r].result.returncode # 0
     THEN /\ Fail(r, "sync", SyncFailed(loc[r].result))
          /\ UNCHANGED xcom
     ELSE /\ Succeed(r, "sync", None)
          /\ UNCHANGED raised
  /\ UNCHANGED <<host, fs, params, tries, gets>>

(* --------------------------- specifications --------------------------- *)

\* A file already at the cache path: left by an earlier successful download,
\* or installed there by hand.
CachedFile(h, body) ==
  [exists |-> TRUE, content |-> body,
   mode |-> IF IsWindows(h) THEN CreateMode ELSE ExecMode]

InitRuns ==
  /\ params = [r \in Runs |-> NoParams]
  /\ task = [r \in Runs |-> [dl |-> "none", sync |-> "none"]]
  /\ tries = [r \in Runs |-> [dl |-> 0, sync |-> 0]]
  /\ pc = [r \in Runs |-> "idle"]
  /\ loc = [r \in Runs |-> NoLoc]
  /\ gets = [r \in Runs |-> 0]
  /\ xcom = [r \in Runs |-> None]
  /\ raised = NoExc

\* Any host; the cache path is empty or already holds a file.
Init ==
  /\ host \in Hosts
  /\ fs \in {NoFile} \cup {CachedFile(host, b) : b \in Bodies}
  /\ InitRuns

\* One run at a time: the DAG is triggered only while no other run is under way.
SeqTrigger(r) == (\A q \in Runs \ {r} : params[q] = NoParams) /\ Trigger(r)

Next ==
  \E r \in Runs :
    \/ SeqTrigger(r)
    \/ StartResolver(r)
    \/ CheckExists(r)
    \/ GetUrl(r)
    \/ HttpGet(r, Inputs)
    \/ OpenFile(r)
    \/ WriteFile(r)
    \/ Chmod(r)
    \/ StartVersionCheck(r)
    \/ VersionCheck(r, Inputs)
    \/ StartRunner(r)
    \/ RunSync(r)
    \/ SyncExit(r, Inputs)
    \/ CheckResult(r)
    \/ Archive(r)

Spec == Init /\ [][Next]_vars

\* The same with every enabled step eventually taken: every HTTP GET and
\* every child process ends, and the scheduler starts what it can.
FairSpec == Spec /\ WF_vars(Next)

\* Runs executing concurrently on one POSIX host, starting from an empty cache.
ConcInit ==
  /\ host \in PosixHosts
  /\ fs = NoFile
  /\ InitRuns

ConcNext ==
  \E r \in Runs :
    \/ Trigger(r)
    \/ StartResolver(r)
    \/ CheckExists(r)
    \/ GetUrl(r)
    \/ HttpGet(r, FewInputs)
    \/ OpenFile(r)
    \/ WriteFile(r)
    \/ Chmod(r)
    \/ StartVersionCheck(r)
    \/ VersionCheck(r, FewInputs)
    \/ StartRunner(r)
    \/ RunSync(r)
    \/ SyncExit(r, FewInputs)
    \/ CheckResult(r)
    \/ Archive(r)

ConcSpec == ConcInit /\ [][ConcNext]_vars

(* ------------------------- helpers of the claims ---------------------- *)

\* The pieces of a str joined into one string.
RECURSIVE Text(_)
Text(p) == IF p = <<>> THEN "" ELSE Head(p) \o Text(Tail(p))

\* Whether the pieces of part occur in whole, contiguously and in order.
Carries(whole, part) ==
  \E i \in 1..(Len(whole) + 1) : SubSeq(whole, i, i + Len(part) - 1) = part

\* The host is outside the recognized operating systems or architectures.
Unsupported(h) ==
  \/ Lower(h.system) \notin {"darwin", "linux", "windows"}
  \/ Lower(h.machine) \notin {"x86_64", "amd64", "aarch64", "arm64"}

\* The resolver attempt of run r ends in this step.
ResolverEnds(r) == task[r].dl = "running" /\ task'[r].dl # "running"

(* ---------------------------------- C1 -------------------------------- *)

\* C1 as stated: on a host with an unrecognized operating system or
\* architecture, whatever the cache path holds, every resolver invocation ends
\* in the unsupported-platform error and performs no HTTP GET.
C1_AnyCacheState ==
  [][\A r \in Runs :
       (Unsupported(host) /\ ResolverEnds(r))
         => /\ raised'.run = r
            /\ raised'.type = "ValueError"
            /\ gets'[r] = 0]_vars

\* C1 amended: on a host with an unrecognized operating system or architecture,
\* a resolver invocation that finds no file at the cache path ends in the
\* unsupported-platform error and performs no HTTP GET; one that finds a file
\* there returns the cache path, also without an HTTP GET.
C1_UnsupportedPlatform ==
  [][\A r \in Runs :
       (Unsupported(host) /\ ResolverEnds(r))
         => /\ gets'[r] = 0
            /\ IF fs.exists
               THEN task'[r].dl = "success" /\ xcom'[r] = CachePath(host)
               ELSE /\ task'[r].dl \in {"up_for_retry", "failed"}
                    /\ raised'.run = r
                    /\ raised'.task = "dl"
                    /\ raised'.type = "ValueError"]_vars

\* An unsupported architecture, an empty cache path, and a resolver attempt that
\* has just ended in the ValueError naming the architecture.
C1_Witness ==
  /\ Lower(host.system) = "linux"
  /\ host.machine = "riscv64"
  /\ ~fs.exists
  /\ raised.task = "dl"
  /\ raised.type = "ValueError"
  /\ raised.msg = <<"Unsupported architecture: ", "riscv64">>
  /\ gets[raised.run] = 0

(* ---------------------------------- C2 -------------------------------- *)

\* C2: when a file exists at the cache path, a resolver invocation returns the
\* cache path, performs no HTTP GET and leaves the file's content and mode as
\* they are, whatever version it was asked for; a resolver that has returned
\* leaves a file at the cache path, which stays there and, with one run at a
\* time, unchanged: so every invocation after a successful one returns the same
\* path without an HTTP GET.
C2_CacheHit ==
  /\ [][\A r \in Runs :
          (pc[r] = "exists" /\ fs.exists /\ pc'[r] # "exists")
            => /\ task'[r].dl = "success"
               /\ xcom'[r] = CachePath(host)
               /\ gets'[r] = 0
               /\ fs' = fs]_vars
  /\ [][\A r \in Runs :
          (ResolverEnds(r) /\ task'[r].dl = "success")
            => fs'.exists /\ xcom'[r] = CachePath(host)]_vars
  /\ [][fs.exists => fs'.exists]_vars
  /\ [][(fs.exists /\ \A r \in Runs : pc[r] \notin {"open", "write", "chmod"})
          => fs' = fs]_vars

\* The cache holds the asset of v6.4.1; a resolver asked for v6.5.0 has
\* returned the cache path without an HTTP GET.
C2_Witness ==
  \E r \in Runs :
    /\ fs.exists
    /\ fs.content = Asset("v6.4.1")
    /\ params[r].cloudquery_version = "v6.5.0"
    /\ tries[r].dl = 1
    /\ task[r].dl = "success"
    /\ gets[r] = 0
    /\ xcom[r] = CachePath(host)

(* ---------------------------------- C3 -------------------------------- *)

\* C3 as stated: the runner starts one child process with the arguments
\* [binaryPath, "sync", configPath], raises if and only if its exit code is not
\* zero, the error raised carries that exit code and the captured standard
\* output, and with exit code zero it returns normally.
C3_RunnerRaisesWithCodeAndOutput ==
  [][\A r \in Runs :
       (pc[r] = "check" /\ pc'[r] # "check")
         => LET res == loc[r].result
            IN /\ res.args = <<loc[r].args.cloudquery_path, <<"sync">>,
                               loc[r].args.spec_file_path>>
               /\ (task'[r].sync = "success") <=> (res.returncode = 0)
               /\ res.returncode = 0 => raised' = raised
               /\ res.returncode # 0
                    => /\ raised'.run = r
                       /\ raised'.task = "sync"
                       /\ raised'.type = "Exception"
                       /\ Carries(raised'.msg, IntStr(res.returncode))
                       /\ Utf8Decode(res.stdout).ok
                       /\ Carries(raised'.msg, Utf8Decode(res.stdout).text)]_vars

(* ---------------------------------- C4 -------------------------------- *)

\* The names the download URL uses for what platform reports.
UrlOs == [s \in {"Darwin", "Linux", "Windows"} |->
            IF s = "Darwin" THEN "darwin" ELSE IF s = "Linux" THEN "linux" ELSE "windows"]
UrlArch == [m \in {"x86_64", "AMD64", "aarch64", "arm64"} |->
              IF m \in {"x86_64", "AMD64"} THEN "amd64" ELSE "arm64"]

\* C4: on each recognized operating system and architecture, for every version,
\* the download URL is
\*   https://github.com/cloudquery/cloudquery/releases/download/cli-<version>/cloudquery_<os>_<arch>
\* with .exe appended exactly on windows, and the cache file is named cloudquery,
\* with .exe appended exactly on windows, whatever the version and architecture.
C4_UrlAndCacheName ==
  \A r \in Runs :
    /\ pc[r] \in {"get", "open", "write", "chmod", "version", "read"}
         => /\ ~Unsupported(host)
            /\ Text(loc[r].url) =
                 "https://github.com/cloudquery/cloudquery/releases/download/cli-"
                   \o params[r].cloudquery_version
                   \o "/cloudquery_" \o UrlOs[host.system] \o "_" \o UrlArch[host.machine]
                   \o (IF host.system = "Windows" THEN ".exe" ELSE "")
    /\ xcom[r] # None
         => Text(xcom[r]) = (IF host.system = "Windows" THEN "<tmp>\\cloudquery.exe"
                                                         ELSE "<tmp>/cloudquery")

\* Windows on AMD64 asked for v6.5.0: the URL ends in cloudquery_windows_amd64.exe.
C4_Witness ==
  \E r \in Runs :
    /\ host = [system |-> "Windows", machine |-> "AMD64"]
    /\ pc[r] = "get"
    /\ Text(loc[r].url) =
         "https://github.com/cloudquery/cloudquery/releases/download/cli-v6.5.0/cloudquery_windows_amd64.exe"

(* ---------------------------------- C5 -------------------------------- *)

\* C5: a resolver invocation running alone that found no file at the cache path
\* and whose HTTP GET fails (a network error, a 4xx or 5xx status) ends in a
\* download error with still no file at the cache path; the file comes into
\* existence only in the step after a successful response; and an attempt that
\* finds no file never takes the cache hit, so it succeeds only after an HTTP
\* GET of its own.
C5_FailedDownloadLeavesNoFile ==
  /\ [][\A r \in Runs :
          (pc[r] = "get" /\ pc'[r] = "idle")
            => /\ task'[r].dl \in {"up_for_retry", "failed"}
               /\ raised'.run = r
               /\ raised'.type \in {"HTTPError", "ConnectionError"}
               /\ ~fs'.exists]_vars
  /\ [][(~fs.exists /\ fs'.exists)
          => \E r \in Runs :
               /\ pc[r] = "open"
               /\ loc[r].response.kind = "resp"
               /\ loc[r].response.status = 200]_vars
  /\ [][\A r \in Runs :
          (pc[r] = "exists" /\ ~fs.exists /\ pc'[r] # "exists")
            => pc'[r] = "url" /\ task'[r].dl = "running"]_vars
  /\ [][\A r \in Runs :
          (ResolverEnds(r) /\ task'[r].dl = "success" /\ pc[r] # "exists")
            => gets[r] = 1]_vars

\* The first attempt failed at the HTTP GET, and the retry, finding no file, has
\* made an HTTP GET of its own and got a response.
C5_Witness ==
  \E r \in Runs :
    /\ tries[r].dl = 2
    /\ pc[r] = "open"
    /\ gets[r] = 1
    /\ ~fs.exists

(* ---------------------------------- C6 -------------------------------- *)

\* C6 as stated: a resolver invocation running alone that found no file, on a
\* recognized platform, and whose download succeeded returns the cache path
\* with the file holding the whole response body and, on darwin and linux, mode
\* 0755 (owner, group and other execute bits set), on windows the mode it was
\* created with; whatever the version query does, the invocation succeeds.
C6_DownloadedFileAndAdvisoryVersionQuery ==
  [][\A r \in Runs :
       (pc[r] \in {"version", "read"} /\ pc'[r] \notin {"version", "read"})
         => /\ task'[r].dl = "success"
            /\ xcom'[r] = CachePath(host)
            /\ fs'.exists
            /\ fs'.content = loc[r].response.content
            /\ IF IsWindows(host)
               THEN fs'.mode = CreateMode
               ELSE fs'.mode = 493 /\ ExecBits(fs'.mode) = <<1, 1, 1>>]_vars

(* ---------------------------------- C7 -------------------------------- *)

\* C7: in a run the sync subprocess is started only after a resolver attempt of
\* that run has returned; the runner's binary path is the value that attempt
\* returned and its configuration path is the run's spec_file_path, unchanged
\* down to the child's arguments; and when the resolver has failed on all its
\* attempts the runner is never started.
C7_ResolverThenRunner ==
  \A r \in Runs :
    /\ tries[r].sync > 0 => task[r].dl = "success"
    /\ pc[r] \in {"run", "wait", "check"}
         => /\ task[r].dl = "success"
            /\ xcom[r] # None
            /\ loc[r].args.cloudquery_path = xcom[r]
            /\ loc[r].args.spec_file_path = params[r].spec_file_path
    /\ pc[r] \in {"wait", "check"}
         => loc[r].result.args = <<xcom[r], <<"sync">>, params[r].spec_file_path>>
    /\ task[r].dl = "failed"
         => /\ tries[r].sync = 0
            /\ task[r].sync = "upstream_failed"
            /\ pc[r] = "idle"

\* The resolver needed its retry, and the runner's child has exited.
C7_Witness ==
  \E r \in Runs :
    /\ tries[r].dl = 2
    /\ task[r].dl = "success"
    /\ pc[r] = "check"
    /\ loc[r].result.args = <<CachePath(host), <<"sync">>, <<"/etc/other.yml">>>>

(* ---------------------------------- C8 -------------------------------- *)

\* Run r has succeeded or failed.
RunFinished(r) == RunState(r) \in {"success", "failed"}

\* C8: each task of a run is attempted at most twice; every attempt starts at
\* the task's first step (the resolver's at the existence check); an attempt of
\* the runner leaves the resolver as it is; the run has failed exactly when one
\* of its tasks has failed on both attempts; and when every HTTP GET and every
\* child process ends, every run ends in success or failure.
C8_RetryPolicy ==
  /\ [](\A r \in Runs : \A t \in Tasks :
          /\ tries[r][t] <= 2
          /\ task[r][t] = "up_for_retry" => tries[r][t] = 1
          /\ task[r][t] = "failed" => tries[r][t] = 2)
  /\ [][\A r \in Runs : \A t \in Tasks :
          tries'[r][t] > tries[r][t]
            => /\ tries'[r][t] = tries[r][t] + 1
               /\ pc[r] = "idle"
               /\ pc'[r] = (IF t = "dl" THEN "exists" ELSE "run")
               /\ task'[r][t] = "running"
               /\ loc'[r].url = None
               /\ loc'[r].response = [kind |-> "none"]
               /\ loc'[r].result = [kind |-> "none"]
               /\ t = "dl" => gets'[r] = 0
               /\ t = "sync" => (tries'[r].dl = tries[r].dl /\ task'[r].dl = "success"
                                   /\ task[r].dl = "success")]_vars
  /\ [](\A r \in Runs :
          RunState(r) = "failed"
            <=> \E t \in Tasks : task[r][t] = "failed" /\ tries[r][t] = 2)
  /\ \A r \in Runs : [](params[r] # NoParams => <>RunFinished(r))

\* A run whose resolver needed its retry and whose runner failed twice.
C8_Witness ==
  \E r \in Runs :
    /\ tries[r].dl = 2
    /\ tries[r].sync = 2
    /\ task[r].sync = "failed"
    /\ RunState(r) = "failed"

(* ---------------------------------- C9 -------------------------------- *)

\* C9: nothing in the code guards the existence check and the write: wherever
\* the other invocations are in their own check, download, open, write or
\* set-executable steps, an invocation that found no file can go on to create
\* or truncate the file and to write it.  The one refusal is the operating
\* system's: the open raises while a child process is executing the file.
\* (The witness is the interleaving.)
C9_NoLock ==
  \A r \in Runs :
    /\ pc[r] = "exists" => ENABLED CheckExists(r)
    /\ (pc[r] = "open" /\ ~Executing)
         => ENABLED (OpenFile(r) /\ pc'[r] = "write" /\ fs'.content = <<>>)
    /\ pc[r] = "open" => ENABLED OpenFile(r)
    /\ pc[r] = "write" => ENABLED WriteFile(r)

\* Both invocations found no file and made the HTTP GET; a wrote <<2, 3>>, set
\* the mode and is at its version query, its command not yet started; b then
\* truncated the file and wrote <<1>> over it.
C9_Witness ==
  \E a, b \in Runs :
    /\ a # b
    /\ tries[a].dl = 1 /\ tries[b].dl = 1
    /\ gets[a] = 1 /\ gets[b] = 1
    /\ pc[a] = "version"
    /\ loc[a].response.content = <<2, 3>>
    /\ pc[b] = "chmod"
    /\ loc[b].response.content = <<1>>
    /\ fs.content = <<1>>

(* ---------------------------------- C10 ------------------------------- *)

\* The file holds a whole response body and has its execute bits set.
CompleteBinary(f) ==
  f.exists /\ f.content \in Bodies /\ ExecBits(f.mode) = <<1, 1, 1>>

\* C10 as stated: with runs executing concurrently on a POSIX host from an
\* empty cache, whenever a resolver invocation returns the cache path, and
\* whenever a runner starts the sync subprocess, the file there holds a whole
\* downloaded body and has its execute bits set.
C10_ReturnedPathIsCompleteBinary ==
  /\ [][\A r \in Runs :
          (ResolverEnds(r) /\ task'[r].dl = "success") => CompleteBinary(fs')]_vars
  /\ [][\A r \in Runs :
          (pc[r] = "run" /\ pc'[r] # "run") => CompleteBinary(fs)]_vars

====
